---- MODULE Spec2Model ----
(***************************************************************************)
(* Model of micropip's mock package commands                               *)
(* (src/micropip/_commands/mock_package.py): add_mock_package,             *)
(* list_mock_packages and remove_mock_package, over a file system rooted   *)
(* at the user site-packages directory, the module search path and the     *)
(* in-memory registry of micropip._mock_package.                           *)
(***************************************************************************)
EXTENDS Integers, Sequences, FiniteSets, TLC

VARIABLES
    dirs,                \* set of existing directories (paths below site_packages; <<>> is site_packages)
    files,               \* function: path of an existing file -> its content
    sys_path,            \* number of entries of sys.path that name site_packages
    mock_distributions,  \* in-memory registry: distribution name -> [metafiles, modules]
    mock_modules,        \* in-memory registry: dotted module name -> module spec
    finder_installed,    \* the in-memory resolver is hooked into the module lookup chain
    caches_stale,        \* the file system changed since the import caches were last invalidated
    calls,               \* number of calls made so far
    last,                \* the last call made and how it ended
    removed              \* the dist-info directories that successful removes have deleted

vars == <<dirs, files, sys_path, mock_distributions, mock_modules, finder_installed,
          caches_stale, calls, last, removed>>

----------------------------------------------------------------------------
(* Bounds *)

MaxCalls == 3        \* calls of add and remove in one run

----------------------------------------------------------------------------
(* Program constants and input domains *)

MOCK_INSTALL_NAME_MEMORY == "micropip in-memory mock package"
MOCK_INSTALL_NAME_PERSISTENT == "micropip mock package"

PIP_INSTALLER == "pip"               \* marker of a genuinely installed package

Names == {"foo", "m"}                \* package names given to add
Versions == {"1.0"}

NONE == "<None>"                     \* a module spec of None
INIT_FN == "<init_fn>"               \* a module spec that is a callable

\* The modules dictionaries given to add, as ordered (module name, module spec)
\* pairs: no module, the empty name, a package, a dotted name, a package with
\* its sub-module, and a callable alone or after a module with source text.
ModuleItems ==
    { <<>>,
      << <<"", NONE>> >>,
      << <<"m", NONE>> >>,
      << <<"m.sub", "  X = 42">> >>,
      << <<"m", NONE>>, <<"m.sub", "  X = 42">> >>,
      << <<"m", INIT_FN>> >>,
      << <<"m.sub", "  X = 42">>, <<"m", INIT_FN>> >> }

REAL_NAME == "real"                  \* a package installed by an ordinary installer
REAL_VERSION == "1.0"
RemoveNames == Names \cup {REAL_NAME}

\* source text written as given
dedent_Verbatim(s) == s

\* textwrap.dedent on the source texts of the model
dedent(s) == IF s = "  X = 42" THEN "X = 42" ELSE s

\* n.split(".")
split(n) ==
    CASE n = ""      -> <<"">>
      [] n = "m.sub" -> <<"m", "sub">>
      [] OTHER       -> <<n>>

----------------------------------------------------------------------------
(* Paths: sequences of components relative to site.getusersitepackages() *)

site_packages == <<>>

\* Path(site_packages, *parts): pathlib drops empty components
PathJoin(base, parts) == base \o SelectSeq(parts, LAMBDA c : c # "")

Parent(p) == IF p = <<>> THEN <<>> ELSE SubSeq(p, 1, Len(p) - 1)

IsPrefix(p, q) == Len(p) <= Len(q) /\ SubSeq(q, 1, Len(p)) = p

\* every ancestor of p, p included
Ancestors(p) == { SubSeq(p, 1, k) : k \in 0..Len(p) }

DistInfoName(name, version) == name \o "-" \o version \o ".dist-info"

metadata_dir(name, version) == PathJoin(site_packages, <<DistInfoName(name, version)>>)

\* The distribution names and versions a directory name can stand for.
AllNames == Names \cup {REAL_NAME}

\* importlib.metadata recognises <name>-<version>.dist-info directories
IsDistInfo(p) ==
    /\ Len(p) = 1
    /\ \E n \in AllNames, v \in Versions : p = metadata_dir(n, v)

\* the name importlib.metadata derives from the directory name
DirName(p) == CHOOSE n \in AllNames : \E v \in Versions : p = metadata_dir(n, v)

----------------------------------------------------------------------------
(* File contents *)

TextFile(s) == [kind |-> "text", text |-> s]

RECURSIVE ProvidesText(_, _)
ProvidesText(mods, i) ==
    IF i > Len(mods) THEN ""
    ELSE "Provides:" \o mods[i][1] \o "\n" \o ProvidesText(mods, i + 1)

\* the METADATA f-string, lines 88-95
MetadataText(name, version, mods) ==
    "Metadata-Version: 1.1\nName: " \o name \o "\nVersion: " \o version
      \o "\nSummary: " \o name \o " mock package generated by micropip"
      \o "\nAuthor-email: " \o name \o "@micro.pip.non-working-fake-host\n"
      \o ProvidesText(mods, 1)

\* A METADATA file: its text together with the fields a reader parses out of it.
MetadataFile(name, version, mods) ==
    [kind |-> "METADATA", text |-> MetadataText(name, version, mods),
     Name |-> name, Version |-> version,
     Provides |-> [i \in 1..Len(mods) |-> mods[i][1]]]

\* a RECORD that lists every file with size 0
st_size_Zero(content) == 0

\* file.stat().st_size
st_size(content) == Len(content.text)

----------------------------------------------------------------------------
(* File system primitives *)

\* open(p, "w").write(c)
WriteFile(fl, p, c) == [q \in (DOMAIN fl) \cup {p} |-> IF q = p THEN c ELSE fl[q]]

\* p.unlink() for each p of ps
Unlink(fl, ps) == [q \in (DOMAIN fl) \ ps |-> fl[q]]

\* mkdir without parents=True, were the parent always there
MkdirParents_LeafOnly(ds, p) == ds \cup {p}

\* dir.mkdir(parents=True, exist_ok=True)
MkdirParents(ds, p) == ds \cup Ancestors(p)

\* shutil.rmtree(f): f and everything below it
RmtreeDirs(ds, f) == { d \in ds : ~IsPrefix(f, d) }
RmtreeFiles(fl, f) == [q \in { r \in DOMAIN fl : ~IsPrefix(f, r) } |-> fl[q]]

----------------------------------------------------------------------------
(* add_mock_package, persistent backend (lines 97-131) *)

\* the modules argument: omitted (None) or a dictionary
ModulesArgs == {[given |-> FALSE, items |-> <<>>]}
                 \cup { [given |-> TRUE, items |-> ms] : ms \in ModuleItems }

\* the loop over modules.items(), lines 115-125; st = [dirs, files, file_list, outcome]
RECURSIVE WriteModules(_, _, _)
WriteModules(st, mods, i) ==
    IF i > Len(mods) THEN st
    ELSE LET n == mods[i][1]
             s0 == mods[i][2]
             s1 == IF s0 = NONE THEN "" ELSE s0
         IN IF s1 = INIT_FN
            THEN \* dedent() of a callable raises TypeError
                 [st EXCEPT !.outcome = "TypeError"]
            ELSE LET s == dedent(s1)
                     dir_path == PathJoin(site_packages, split(n))
                 IN WriteModules(
                        [dirs      |-> MkdirParents(st.dirs, dir_path),
                         files     |-> WriteFile(st.files, dir_path \o <<"__init__.py">>, TextFile(s)),
                         file_list |-> Append(st.file_list, dir_path \o <<"__init__.py">>),
                         outcome   |-> st.outcome],
                        mods, i + 1)

\* the RECORD lines, lines 128-131
RecordFile(fl, file_list, record_file) ==
    [kind  |-> "RECORD",
     lines |-> [i \in 1..Len(file_list) |->
                   [path |-> file_list[i], size |-> <<st_size(fl[file_list[i]])>>]]
               \o <<[path |-> record_file, size |-> <<>>]>>]

\* `site_packages not in sys.path` compares a Path with the strings of
\* sys.path, and a Path never equals a string: the entry is always appended.
SitePackagesNotInSysPath(n) == TRUE

\* mkdir(exist_ok=True): an existing directory is accepted
MetadataDirExists_ExistOk(ds, mdir) == FALSE

\* a conflict check that only counts a directory holding a complete distribution
MetadataDirExists_WhenComplete(ds, mdir) ==
    mdir \in ds /\ (mdir \o <<"RECORD">>) \in DOMAIN files

\* a conflict check that remembers the directories of removed installations
MetadataDirExists_EverInstalled(ds, mdir) == mdir \in ds \/ mdir \in removed

\* metadata_dir.mkdir(parents=True, exist_ok=False) finds the directory present
MetadataDirExists(ds, mdir) == mdir \in ds

\* lines 99-131; result = [dirs, files, sys_path, outcome]
AddPersistent(name, version, mods, METADATA) ==
    LET dirs1 == IF site_packages \notin dirs THEN MkdirParents(dirs, site_packages) ELSE dirs
        sys_path1 == IF SitePackagesNotInSysPath(sys_path) THEN sys_path + 1 ELSE sys_path
        mdir == metadata_dir(name, version)
        metadata_file == mdir \o <<"METADATA">>
        record_file == mdir \o <<"RECORD">>
        installer_file == mdir \o <<"INSTALLER">>
    IN IF MetadataDirExists(dirs1, mdir)
       THEN \* FileExistsError, raised before any file is written
            [dirs |-> dirs1, files |-> files, sys_path |-> sys_path1,
             outcome |-> "FileExistsError"]
       ELSE LET st0 == [dirs      |-> dirs1 \cup {mdir},
                        files     |-> WriteFile(files, metadata_file, METADATA),
                        file_list |-> <<metadata_file, installer_file>>,
                        outcome   |-> "ok"]
                st1 == WriteModules(st0, mods, 1)
                files2 == WriteFile(st1.files, installer_file,
                                    TextFile(MOCK_INSTALL_NAME_PERSISTENT))
                files3 == WriteFile(files2, record_file,
                                    RecordFile(files2, st1.file_list, record_file))
            IN IF st1.outcome # "ok"
               THEN [dirs |-> st1.dirs, files |-> st1.files, sys_path |-> sys_path1,
                     outcome |-> st1.outcome]
               ELSE [dirs |-> st1.dirs, files |-> files3, sys_path |-> sys_path1,
                     outcome |-> "ok"]

----------------------------------------------------------------------------
(* The in-memory registry of micropip._mock_package *)

Without(f, ks) == [k \in (DOMAIN f) \ ks |-> f[k]]

ModuleKeys(mods) == { mods[i][1] : i \in 1..Len(mods) }

ModuleSpecOf(mods, n) == mods[CHOOSE i \in 1..Len(mods) : mods[i][1] = n][2]

\* _add_in_memory_distribution(name, metafiles, modules):
\* result = [mock_distributions, mock_modules]
AddInMemoryDistribution(name, metafiles, mods) ==
    [mock_distributions |->
        [k \in (DOMAIN mock_distributions) \cup {name} |->
            IF k = name THEN [metafiles |-> metafiles, modules |-> mods]
            ELSE mock_distributions[k]],
     mock_modules |->
        [n \in (DOMAIN mock_modules) \cup ModuleKeys(mods) |->
            IF n \in ModuleKeys(mods) THEN ModuleSpecOf(mods, n) ELSE mock_modules[n]]]

\* _remove_in_memory_distribution(name): unregister from both tables
RemoveInMemoryDistribution(name) ==
    IF name \in DOMAIN mock_distributions
    THEN [mock_distributions |-> Without(mock_distributions, {name}),
          mock_modules |-> Without(mock_modules,
                                   ModuleKeys(mock_distributions[name].modules))]
    ELSE [mock_distributions |-> mock_distributions, mock_modules |-> mock_modules]

\* the body a registered module gets when it is imported
MaterializedBody(spec) == IF spec = NONE THEN "" ELSE dedent(spec)

----------------------------------------------------------------------------
(* importlib.metadata: the distribution query facility *)

\* distributions found on the file system: the dist-info directories of
\* site_packages, once site_packages is an entry of sys.path
PathDistributions ==
    IF sys_path = 0 THEN {}
    ELSE { d \in dirs : IsDistInfo(d) }

\* dist.read_text("INSTALLER") of a path distribution; NONE when the file is absent
ReadInstaller(d) ==
    IF (d \o <<"INSTALLER">>) \in DOMAIN files
    THEN files[d \o <<"INSTALLER">>].text ELSE NONE

\* dist.name of a path distribution: the Name field of METADATA
DistName(d) ==
    IF (d \o <<"METADATA">>) \in DOMAIN files
    THEN files[d \o <<"METADATA">>].Name ELSE NONE

\* d.files of a path distribution: the paths RECORD names, or NONE
DistFiles(d) ==
    IF (d \o <<"RECORD">>) \in DOMAIN files
    THEN LET ls == files[d \o <<"RECORD">>].lines
         IN [i \in 1..Len(ls) |-> ls[i].path]
    ELSE <<>>

\* a lookup that does not compare names
PathCandidates_AnyName(name) == PathDistributions

\* the path distributions importlib.metadata.distribution(name) can return
PathCandidates(name) == { d \in PathDistributions : DirName(d) = name }

\* a listing that accepts every distribution with an INSTALLER file
IsMock_AnyMarker(installer) == installer # NONE

\* a listing that knows the persistent tag only
IsMock_PersistentOnly(installer) ==
    installer # NONE /\ installer = MOCK_INSTALL_NAME_PERSISTENT

IsMock(installer) ==
    installer # NONE /\ (installer = MOCK_INSTALL_NAME_PERSISTENT
                           \/ installer = MOCK_INSTALL_NAME_MEMORY)

\* list_mock_packages(), lines 140-149: the returned list as a function
\* name -> number of times the list holds it (each sys.path entry that
\* names site_packages yields its distributions once more)
list_mock_packages ==
    LET memory == { n \in DOMAIN mock_distributions :
                      IsMock(mock_distributions[n].metafiles.INSTALLER) }
        path == { d \in PathDistributions : IsMock(ReadInstaller(d)) }
        names == memory \cup { DistName(d) : d \in path }
    IN [n \in names |->
          (IF n \in memory THEN 1 ELSE 0)
          + sys_path * Cardinality({ d \in path : DistName(d) = n })]

ListContains(n) == n \in DOMAIN list_mock_packages

----------------------------------------------------------------------------
(* remove_mock_package (lines 152-177) *)

\* importlib.metadata.distribution(name): the objects the lookup can return.
\* The in-memory resolver is consulted before the file system; among several
\* dist-info directories of one name the directory listing order decides.
distribution(name) ==
    IF name \in DOMAIN mock_distributions
    THEN {[memory |-> TRUE, path |-> <<>>]}
    ELSE { [memory |-> FALSE, path |-> d] : d \in PathCandidates(name) }

\* d.read_text("INSTALLER")
InstallerOf(name, d) ==
    IF d.memory THEN mock_distributions[name].metafiles.INSTALLER
    ELSE ReadInstaller(d.path)

\* a remove that does not recognise the in-memory tag
IsMemoryMock_Never(installer) == FALSE

\* line 155
IsMemoryMock(installer) == installer = MOCK_INSTALL_NAME_MEMORY

\* a check that lets a distribution without INSTALLER file through
NotAMock_MarkerPresent(installer) ==
    installer # NONE /\ installer # MOCK_INSTALL_NAME_PERSISTENT

\* line 158
NotAMock(installer) == installer = NONE \/ installer # MOCK_INSTALL_NAME_PERSISTENT

\* the loop of lines 167-170; st = [files, folders, outcome]
RECURSIVE UnlinkFiles(_, _, _)
UnlinkFiles(st, fl, i) ==
    IF i > Len(fl) THEN st
    ELSE IF fl[i] \notin DOMAIN st.files
         THEN [st EXCEPT !.outcome = "FileNotFoundError"]
         ELSE UnlinkFiles([files   |-> Unlink(st.files, {fl[i]}),
                           folders |-> st.folders \cup {Parent(fl[i])},
                           outcome |-> st.outcome],
                          fl, i + 1)

\* a loop without the guard of line 176
MayDelete_Unguarded(f) == TRUE

\* the guard of line 176
MayDelete(f) == f # site_packages

\* the loop of lines 175-177 over the folders in iteration order `order`;
\* st = [dirs, files, outcome]
RECURSIVE RmtreeFolders(_, _, _)
RmtreeFolders(st, order, i) ==
    IF i > Len(order) THEN st
    ELSE LET f == order[i]
         IN IF ~MayDelete(f) THEN RmtreeFolders(st, order, i + 1)
            ELSE IF f \notin st.dirs
                 THEN [st EXCEPT !.outcome = "FileNotFoundError"]
                 ELSE RmtreeFolders([dirs    |-> RmtreeDirs(st.dirs, f),
                                     files   |-> RmtreeFiles(st.files, f),
                                     outcome |-> st.outcome],
                                    order, i + 1)

\* the orders in which a set can be iterated
Orders(S) ==
    { o \in [1..Cardinality(S) -> S] : \A i, j \in 1..Cardinality(S) : i # j => o[i] # o[j] }

\* lines 165-170 for the path distribution d
RemoveUnlinked(d) ==
    UnlinkFiles([files |-> files, folders |-> {}, outcome |-> "ok"], DistFiles(d), 1)

\* lines 163-177 for the path distribution d; result = [dirs, files, outcome]
RemovePersistent(d, order) ==
    LET u == RemoveUnlinked(d)
    IN IF u.outcome # "ok"
       THEN [dirs |-> dirs, files |-> u.files, outcome |-> u.outcome]
       ELSE RmtreeFolders([dirs |-> dirs, files |-> u.files, outcome |-> "ok"], order, 1)

----------------------------------------------------------------------------
(* The calls *)

NoModules == [given |-> FALSE, items |-> <<>>]

\* op, name, version, modules, persistent: the call and its arguments;
\* target: the dist-info directory the call is about (<<>> when in memory);
\* folders: the folders a remove collected; outcome: "ok" or the exception raised
Call(op, name, version, modules, persistent, target, folders, outcome) ==
    [op |-> op, name |-> name, version |-> version, modules |-> modules,
     persistent |-> persistent, target |-> target, folders |-> folders,
     outcome |-> outcome]

\* a default of no module at all
DefaultModules_NoModule(name) == <<>>

\* lines 84-86
DefaultModules(name) == <<<<name, "">>>>

\* the finders' directory caches lag behind once a file or directory changes
StaleAfter(stale, dirs1, files1) == stale \/ dirs1 # dirs \/ files1 # files

\* a return without the call of line 137
invalidate_caches_Skipped(stale) == stale

\* importlib.invalidate_caches(), line 137
invalidate_caches(stale) == FALSE

\* add_mock_package(name, version, modules=..., persistent=...)
Add(name, version, modules, persistent) ==
    LET mods == IF ~modules.given THEN DefaultModules(name) ELSE modules.items
        METADATA == MetadataFile(name, version, mods)
    IN IF persistent
       THEN /\ LET r == AddPersistent(name, version, mods, METADATA)
               IN /\ dirs' = r.dirs
                  /\ files' = r.files
                  /\ sys_path' = r.sys_path
                  /\ caches_stale' =
                        IF r.outcome = "ok"
                        THEN invalidate_caches(StaleAfter(caches_stale, r.dirs, r.files))
                        ELSE \* the exception leaves before line 137
                             StaleAfter(caches_stale, r.dirs, r.files)
                  /\ last' = Call("add", name, version, modules, TRUE,
                                  metadata_dir(name, version), {}, r.outcome)
            /\ UNCHANGED <<mock_distributions, mock_modules, finder_installed>>
       ELSE /\ LET INSTALLER == MOCK_INSTALL_NAME_MEMORY
                   metafiles == [METADATA |-> METADATA, INSTALLER |-> INSTALLER]
                   r == AddInMemoryDistribution(name, metafiles, mods)
               IN /\ mock_distributions' = r.mock_distributions
                  /\ mock_modules' = r.mock_modules
            /\ finder_installed' = TRUE
            /\ caches_stale' = invalidate_caches(caches_stale)
            /\ last' = Call("add", name, version, modules, FALSE, <<>>, {}, "ok")
            /\ UNCHANGED <<dirs, files, sys_path>>

\* remove_mock_package(name)
Remove(name) ==
    IF distribution(name) = {}
    THEN /\ last' = Call("remove", name, "", NoModules, FALSE, <<>>, {},
                         "PackageNotFoundError")
         /\ UNCHANGED <<dirs, files, sys_path, mock_distributions, mock_modules,
                        finder_installed, caches_stale>>
    ELSE \E d \in distribution(name) :
           LET installer == InstallerOf(name, d)
           IN IF IsMemoryMock(installer)
              THEN /\ LET r == RemoveInMemoryDistribution(name)
                      IN /\ mock_distributions' = r.mock_distributions
                         /\ mock_modules' = r.mock_modules
                   /\ last' = Call("remove", name, "", NoModules, FALSE, d.path, {}, "ok")
                   /\ UNCHANGED <<dirs, files, sys_path, finder_installed, caches_stale>>
              ELSE IF NotAMock(installer)
              THEN /\ last' = Call("remove", name, "", NoModules, FALSE, d.path, {},
                                   "ValueError")
                   /\ UNCHANGED <<dirs, files, sys_path, mock_distributions, mock_modules,
                                  finder_installed, caches_stale>>
              ELSE \E order \in Orders(RemoveUnlinked(d.path).folders) :
                     LET r == RemovePersistent(d.path, order)
                     IN /\ dirs' = r.dirs
                        /\ files' = r.files
                        /\ caches_stale' = StaleAfter(caches_stale, r.dirs, r.files)
                        /\ last' = Call("remove", name, "", NoModules, TRUE, d.path,
                                        RemoveUnlinked(d.path).folders, r.outcome)
                        /\ UNCHANGED <<sys_path, mock_distributions, mock_modules,
                                       finder_installed>>

----------------------------------------------------------------------------
(* Initial states: an interpreter in which no mock has been added yet.  The
   user site-packages directory may be absent, or present and holding a
   package put there by an ordinary installer. *)

RealDir == metadata_dir(REAL_NAME, REAL_VERSION)
RealInit == <<REAL_NAME, "__init__.py">>
RealFiles == {RealDir \o <<"METADATA">>, RealDir \o <<"INSTALLER">>,
              RealDir \o <<"RECORD">>, RealInit}

RealPackageFiles(installer) ==
    LET meta == [kind |-> "METADATA",
                 text |-> "Metadata-Version: 2.1\nName: " \o REAL_NAME
                            \o "\nVersion: " \o REAL_VERSION \o "\n",
                 Name |-> REAL_NAME, Version |-> REAL_VERSION, Provides |-> <<>>]
        fl0 == WriteFile(WriteFile(<<>>, RealDir \o <<"METADATA">>, meta),
                         RealInit, TextFile(""))
        fl1 == IF installer = NONE THEN fl0
               ELSE WriteFile(fl0, RealDir \o <<"INSTALLER">>, TextFile(installer))
        owned == IF installer = NONE
                 THEN <<RealDir \o <<"METADATA">>, RealInit>>
                 ELSE <<RealDir \o <<"METADATA">>, RealDir \o <<"INSTALLER">>, RealInit>>
    IN WriteFile(fl1, RealDir \o <<"RECORD">>,
                 RecordFile(fl1, owned, RealDir \o <<"RECORD">>))

Init ==
    /\ \/ /\ dirs = {}
          /\ files = <<>>
          /\ sys_path = 0
       \/ /\ dirs = {site_packages}
          /\ files = <<>>
          /\ sys_path \in {0, 1}
       \/ /\ dirs = {site_packages, RealDir, <<REAL_NAME>>}
          /\ \E installer \in {PIP_INSTALLER, NONE} : files = RealPackageFiles(installer)
          /\ sys_path = 1
    /\ mock_distributions = <<>>
    /\ mock_modules = <<>>
    /\ finder_installed = FALSE
    /\ caches_stale = FALSE
    /\ calls = 0
    /\ last = Call("none", "", "", NoModules, FALSE, <<>>, {}, "ok")
    /\ removed = {}

AddStep == /\ calls < MaxCalls
           /\ calls' = calls + 1
           /\ \E name \in Names, version \in Versions, modules \in ModulesArgs,
                 persistent \in BOOLEAN : Add(name, version, modules, persistent)
           /\ UNCHANGED removed

RemoveStep == /\ calls < MaxCalls
              /\ calls' = calls + 1
              /\ \E name \in RemoveNames : Remove(name)
              /\ removed' = IF last'.persistent /\ last'.outcome = "ok"
                             THEN removed \cup {last'.target} ELSE removed

Next == AddStep \/ RemoveStep

Spec == Init /\ [][Next]_vars

----------------------------------------------------------------------------
(* Properties *)

\* a step of Next is one call
IsCall == calls' = calls + 1

MockTags == {MOCK_INSTALL_NAME_PERSISTENT, MOCK_INSTALL_NAME_MEMORY}

\* the number of distributions of this name the query facility knows
DistributionsNamed(name) ==
    (IF name \in DOMAIN mock_distributions THEN 1 ELSE 0)
    + Cardinality(PathCandidates(name))

\* C1: on either backend, a successful add(name, version) leaves name in
\* list(); a successful remove(name) of the only distribution of that name
\* leaves name out of list().
C1_RoundTrip ==
    [][IsCall =>
         LET name == last'.name
         IN /\ (last'.op = "add" /\ last'.outcome = "ok")
                 => name \in DOMAIN list_mock_packages'
            /\ (last'.op = "remove" /\ last'.outcome = "ok"
                  /\ DistributionsNamed(name) = 1)
                 => name \notin DOMAIN list_mock_packages' ]_vars

\* a persistent mock was added, then removed, and list() no longer holds it
C1_Witness ==
    /\ last.op = "remove" /\ last.outcome = "ok" /\ last.persistent
    /\ last.name = "foo"
    /\ ~ListContains(last.name)
    /\ DistributionsNamed(last.name) = 0

\* C2: remove(name) on an existing distribution whose INSTALLER marker is
\* absent or is neither mock tag raises the not-a-mock error (ValueError)
\* and leaves the file system and the in-memory registry as they were.
C2_NotAMockUntouched ==
    [][(/\ IsCall
        /\ last'.op = "remove"
        /\ last'.name \notin DOMAIN mock_distributions
        /\ last'.target \in PathCandidates(last'.name)
        /\ ReadInstaller(last'.target) \notin MockTags)
         => /\ last'.outcome = "ValueError"
            /\ dirs' = dirs
            /\ files' = files
            /\ mock_distributions' = mock_distributions
            /\ mock_modules' = mock_modules]_vars

\* remove was called on the package of an ordinary installer, whose files are all there
C2_Witness ==
    /\ last.op = "remove" /\ last.name = REAL_NAME /\ last.outcome = "ValueError"
    /\ ReadInstaller(RealDir) = NONE
    /\ RealFiles \ {RealDir \o <<"INSTALLER">>} \subseteq DOMAIN files

\* C3: a persistent add(name, version) made while
\* <site_packages>/<name>-<version>.dist-info exists fails with the conflict
\* error (FileExistsError) and creates, overwrites or deletes no file.
C3_ConflictUntouched ==
    [][(/\ IsCall
        /\ last'.op = "add"
        /\ last'.persistent
        /\ metadata_dir(last'.name, last'.version) \in dirs)
         => /\ last'.outcome = "FileExistsError"
            /\ files' = files
            /\ dirs' = dirs]_vars

\* the second persistent add of one name and version failed, the first one's files in place
C3_Witness ==
    /\ last.op = "add" /\ last.persistent /\ last.outcome = "FileExistsError"
    /\ ReadInstaller(last.target) = MOCK_INSTALL_NAME_PERSISTENT
    /\ (last.target \o <<"RECORD">>) \in DOMAIN files

\* C4: once the module search root exists, no call deletes it, whatever the
\* declared module names, also when a removal leaves it empty.
C4_RootKept ==
    [][(site_packages \in dirs) => (site_packages \in dirs')]_vars

\* a persistent remove collected the root among its folders and left it empty
C4_Witness ==
    /\ last.op = "remove" /\ last.outcome = "ok" /\ last.persistent
    /\ site_packages \in last.folders
    /\ dirs = {site_packages}
    /\ DOMAIN files = {}

\* the paths the RECORD of the dist-info directory d names
OwnedBy(d) == { DistFiles(d)[i] : i \in 1..Len(DistFiles(d)) }

\* C5: a successful remove(name) of a persistent mock distribution deletes
\* no file that another distribution (mock or genuinely installed) owns and
\* the removed one does not.
C5_RemovesOnlyOwnFiles ==
    [][(IsCall /\ last'.op = "remove" /\ last'.persistent /\ last'.outcome = "ok")
         => \A d \in { e \in dirs : IsDistInfo(e) /\ e # last'.target } :
              \A f \in (OwnedBy(d) \ OwnedBy(last'.target)) \cap DOMAIN files :
                 f \in DOMAIN files' ]_vars

\* the modules an add declares
Declared(call) ==
    IF call.modules.given THEN call.modules.items ELSE <<<<call.name, "">>>>

\* the directory and the initializer file of the module named n
ModuleDir(n) == PathJoin(site_packages, split(n))
InitFile(n) == ModuleDir(n) \o <<"__init__.py">>

ModuleDirs(call) == { ModuleDir(Declared(call)[i][1]) : i \in 1..Len(Declared(call)) }
InitFiles(call) == { InitFile(Declared(call)[i][1]) : i \in 1..Len(Declared(call)) }

PersistentAddOk ==
    IsCall /\ last'.op = "add" /\ last'.persistent /\ last'.outcome = "ok"

\* C6 as stated: a successful persistent add creates the dist-info directory
\* and one directory per declared module (the module's own), and no other.
C6_OneDirectoryPerModule ==
    [][PersistentAddOk
         => (dirs' \ dirs) \ {site_packages}
              = (({last'.target} \cup ModuleDirs(last')) \ dirs) \ {site_packages} ]_vars

\* C6, amended: a successful persistent add creates exactly one dist-info
\* directory plus, for each declared module, the directory of its dotted
\* path and every missing parent directory on the way to it (and the search
\* root when absent); it deletes no directory or file and writes no file
\* but METADATA, INSTALLER, RECORD and the modules' initializer files.
C6_DirectoriesCreated ==
    [][PersistentAddOk
         => LET written == {last'.target \o <<"METADATA">>,
                            last'.target \o <<"INSTALLER">>,
                            last'.target \o <<"RECORD">>} \cup InitFiles(last')
            IN /\ dirs \subseteq dirs'
               /\ dirs' \ dirs
                    = ({site_packages, last'.target}
                         \cup UNION { Ancestors(d) : d \in ModuleDirs(last') }) \ dirs
               /\ Cardinality({ d \in dirs' \ dirs : IsDistInfo(d) }) = 1
               /\ written \subseteq DOMAIN files'
               /\ DOMAIN files \subseteq DOMAIN files'
               /\ \A f \in (DOMAIN files') \ written :
                     f \in DOMAIN files /\ files'[f] = files[f] ]_vars

\* the first call was a persistent add of the dotted module m.sub alone: the
\* directories m and m/sub are new, and m holds no initializer file
C6_Witness ==
    /\ calls = 1
    /\ last.op = "add" /\ last.persistent /\ last.outcome = "ok"
    /\ last.modules.items = << <<"m.sub", "  X = 42">> >>
    /\ {<<"m">>, <<"m", "sub">>, last.target} \subseteq dirs
    /\ <<"m", "__init__.py">> \notin DOMAIN files

\* C7: a non-persistent add creates no file or directory and leaves the
\* module search path alone; a remove of a distribution carrying the
\* in-memory tag unregisters it and touches no file or directory.
C7_MemoryLeavesDiskAlone ==
    [][IsCall =>
         LET name == last'.name
         IN /\ (last'.op = "add" /\ ~last'.persistent)
                 => (dirs' = dirs /\ files' = files /\ sys_path' = sys_path)
            /\ (/\ last'.op = "remove"
                /\ name \in DOMAIN mock_distributions
                /\ mock_distributions[name].metafiles.INSTALLER
                     = MOCK_INSTALL_NAME_MEMORY)
                 => /\ last'.outcome = "ok"
                    /\ dirs' = dirs /\ files' = files /\ sys_path' = sys_path
                    /\ name \notin DOMAIN mock_distributions'
                    /\ \A k \in (DOMAIN mock_distributions) \ {name} :
                          /\ k \in DOMAIN mock_distributions'
                          /\ mock_distributions'[k] = mock_distributions[k] ]_vars

\* an in-memory mock was removed while a persistent mock's files were on disk
C7_Witness ==
    /\ last.op = "remove" /\ ~last.persistent /\ last.outcome = "ok"
    /\ last.name \notin DOMAIN mock_distributions
    /\ \E d \in PathDistributions : ReadInstaller(d) = MOCK_INSTALL_NAME_PERSISTENT

\* C8: list() holds exactly the names of the distributions the query
\* facility knows whose INSTALLER marker is the persistent or the in-memory
\* tag: none with an absent or foreign marker, and all that carry a tag.
C8_ListExact ==
    /\ DOMAIN list_mock_packages
         = { n \in DOMAIN mock_distributions :
               mock_distributions[n].metafiles.INSTALLER \in MockTags }
           \cup { DistName(d) :
                    d \in { e \in dirs :
                              /\ sys_path > 0
                              /\ IsDistInfo(e)
                              /\ (e \o <<"INSTALLER">>) \in DOMAIN files
                              /\ files[e \o <<"INSTALLER">>].text \in MockTags } }
    /\ \A d \in PathDistributions :
          ReadInstaller(d) \notin MockTags /\ DistributionsNamed(DirName(d)) = 1
            => ~ListContains(DirName(d))

\* an in-memory mock, a persistent mock and a pip-installed package side by side
C8_Witness ==
    /\ RealDir \in PathDistributions
    /\ ReadInstaller(RealDir) = PIP_INSTALLER
    /\ "foo" \in DOMAIN mock_distributions
    /\ ReadInstaller(metadata_dir("m", "1.0")) = MOCK_INSTALL_NAME_PERSISTENT
    /\ DOMAIN list_mock_packages = {"foo", "m"}

\* the body a module with source s is to have
ExpectedBody(s) ==
    CASE s = NONE       -> ""
      [] s = "  X = 42" -> "X = 42"
      [] OTHER          -> s

\* C9: after a successful add, every declared module with source text s is
\* resolvable by its dotted name with body dedent(s), None counting as empty:
\* on disk <site_packages>/<name split on dots>/__init__.py holds dedent(s)
\* and site_packages is on the search path; in memory the registered module
\* materializes to dedent(s).
C9_ModuleMaterialized ==
    (last.op = "add" /\ last.outcome = "ok")
      => /\ \A i \in 1..Len(Declared(last)) :
              LET n == Declared(last)[i][1]
                  s == Declared(last)[i][2]
              IN s # INIT_FN
                   => IF last.persistent
                      THEN /\ sys_path >= 1
                           /\ InitFile(n) \in DOMAIN files
                           /\ files[InitFile(n)] = TextFile(ExpectedBody(s))
                      ELSE /\ finder_installed
                           /\ n \in DOMAIN mock_modules
                           /\ MaterializedBody(mock_modules[n]) = ExpectedBody(s)
         /\ (last.persistent /\ last.modules.items = << <<"m.sub", "  X = 42">> >>)
              => files[<<"m", "sub", "__init__.py">>].text = "X = 42"

\* a persistent add of {"m.sub": "  X = 42"} succeeded
C9_Witness ==
    /\ last.op = "add" /\ last.persistent /\ last.outcome = "ok"
    /\ last.modules.items = << <<"m.sub", "  X = 42">> >>
    /\ <<"m", "sub", "__init__.py">> \in DOMAIN files

\* C10: add(name, version) without modules declares exactly one module,
\* named like the package and empty, on either backend.
C10_DefaultModule ==
    (last.op = "add" /\ ~last.modules.given /\ last.outcome = "ok")
      => LET name == last.name
             mdir == last.target
         IN IF last.persistent
            THEN /\ files[mdir \o <<"METADATA">>].Provides = <<name>>
                 /\ DistFiles(mdir) = <<mdir \o <<"METADATA">>, mdir \o <<"INSTALLER">>,
                                        <<name, "__init__.py">>, mdir \o <<"RECORD">>>>
                 /\ files[<<name, "__init__.py">>].text = ""
            ELSE /\ mock_distributions[name].metafiles.METADATA.Provides = <<name>>
                 /\ mock_distributions[name].modules = << <<name, "">> >>
                 /\ name \in DOMAIN mock_modules
                 /\ mock_modules[name] = ""

\* a persistent add("foo", "1.0") without modules succeeded
C10_Witness ==
    /\ last.op = "add" /\ ~last.modules.given /\ last.outcome = "ok"
    /\ last.persistent /\ last.name = "foo"
    /\ <<"foo", "__init__.py">> \in DOMAIN files

\* C11: remove(name) for a name that matches no distribution known to the
\* query facility raises the not-found error and changes neither the file
\* system nor the registry nor the module search path.
C11_NotFoundUntouched ==
    [][(/\ IsCall /\ last'.op = "remove"
        /\ last'.name \notin DOMAIN mock_distributions
        /\ ~\E d \in dirs : sys_path > 0 /\ IsDistInfo(d) /\ DirName(d) = last'.name)
         => /\ last'.outcome = "PackageNotFoundError"
            /\ UNCHANGED <<dirs, files, sys_path, mock_distributions, mock_modules,
                           finder_installed>> ]_vars

\* a remove of an unknown name was refused while mocks of other names exist on
\* both backends
C11_Witness ==
    /\ last.op = "remove" /\ last.outcome = "PackageNotFoundError"
    /\ PathCandidates(last.name) = {}
    /\ \E d \in PathDistributions : ReadInstaller(d) = MOCK_INSTALL_NAME_PERSISTENT
    /\ DOMAIN mock_distributions # {}

\* C12: every remove(name) of a persistent mock distribution whose owned
\* files all exist either fully succeeds (no error, every owned file deleted)
\* or raises before deleting anything, whatever the order in which the parent
\* directories are deleted.
C12_RemoveAllOrNothing ==
    [][(/\ IsCall /\ last'.op = "remove" /\ last'.persistent
        /\ OwnedBy(last'.target) \subseteq DOMAIN files)
         => \/ /\ last'.outcome = "ok"
               /\ OwnedBy(last'.target) \cap DOMAIN files' = {}
            \/ /\ last'.outcome # "ok"
               /\ files' = files /\ dirs' = dirs ]_vars

\* the paths a successful persistent add lists in RECORD, in order
RecordedPaths(call) ==
    <<call.target \o <<"METADATA">>, call.target \o <<"INSTALLER">>>>
      \o [i \in 1..Len(Declared(call)) |-> InitFile(Declared(call)[i][1])]

\* C13: after a successful persistent add, RECORD holds one line
\* <path>,,<size> for METADATA, for INSTALLER and for each module initializer
\* file, each size being the size of the file on disk, followed by one last
\* line for RECORD itself with blank size; every file RECORD names exists with
\* its final content, RECORD being the last file written (an add that fails
\* on the way leaves no RECORD).
C13_RecordLines ==
    /\ (last.op = "add" /\ last.persistent /\ last.outcome = "ok")
         => LET record_file == last.target \o <<"RECORD">>
                paths == RecordedPaths(last)
            IN /\ record_file \in DOMAIN files
               /\ files[record_file].kind = "RECORD"
               /\ Len(files[record_file].lines) = Len(paths) + 1
               /\ \A i \in 1..Len(paths) :
                     /\ paths[i] \in DOMAIN files
                     /\ files[record_file].lines[i]
                          = [path |-> paths[i], size |-> <<Len(files[paths[i]].text)>>]
               /\ files[record_file].lines[Len(paths) + 1]
                    = [path |-> record_file, size |-> <<>>]
    /\ (last.op = "add" /\ last.persistent /\ last.outcome = "TypeError")
         => (last.target \o <<"RECORD">>) \notin DOMAIN files

\* a persistent add of two modules, one of them with an indented source, succeeded
C13_Witness ==
    /\ last.op = "add" /\ last.persistent /\ last.outcome = "ok"
    /\ Len(Declared(last)) = 2
    /\ \E i \in 1..2 : Declared(last)[i][2] = "  X = 42"
    /\ Len(files[last.target \o <<"RECORD">>].lines) = 5

\* the dist-info directory a persistent add left behind when it failed in the
\* module loop: METADATA is written, INSTALLER and RECORD are not
Leftover(d) ==
    /\ d \in dirs
    /\ (d \o <<"METADATA">>) \in DOMAIN files
    /\ (d \o <<"INSTALLER">>) \notin DOMAIN files
    /\ (d \o <<"RECORD">>) \notin DOMAIN files

\* the same of the state a call ends in
LeftoverAfter(d) ==
    /\ d \in dirs'
    /\ (d \o <<"METADATA">>) \in DOMAIN files'
    /\ (d \o <<"INSTALLER">>) \notin DOMAIN files'
    /\ (d \o <<"RECORD">>) \notin DOMAIN files'

\* C14: a persistent add(name, version) that fails after it has created the
\* distribution directory (a module whose spec is an initialization routine)
\* leaves the directory on disk, no later call takes it away, and every later
\* persistent add with the same name and version fails with the conflict error.
C14_LeftoverConflicts ==
    [][IsCall =>
        /\ (last'.op = "add" /\ last'.persistent
              /\ last'.outcome \notin {"ok", "FileExistsError"})
             => LeftoverAfter(last'.target)
        /\ \A name \in Names, version \in Versions :
             Leftover(metadata_dir(name, version))
               => /\ LeftoverAfter(metadata_dir(name, version))
                  /\ (last'.op = "add" /\ last'.persistent /\ last'.name = name
                        /\ last'.version = version)
                       => last'.outcome = "FileExistsError" ]_vars

\* a persistent add hit the conflict error on the directory a failed add left
C14_Witness ==
    /\ last.op = "add" /\ last.persistent /\ last.outcome = "FileExistsError"
    /\ Leftover(last.target)

\* an import of the module named n finds it: through the in-memory resolver,
\* or through a directory of sys.path whose cached listing is up to date
Resolvable(n) ==
    \/ finder_installed /\ n \in DOMAIN mock_modules
    \/ sys_path >= 1 /\ InitFile(n) \in DOMAIN files /\ ~caches_stale

\* C15: in every successful add, on either backend, the module-resolution
\* caches are invalidated after every file write or registration of that add
\* and before it returns: once add has returned successfully no cache is
\* stale, list() names the distribution and every module it declares is found
\* by module lookup.
C15_VisibleOnReturn ==
    (last.op = "add" /\ last.outcome = "ok")
      => /\ ~caches_stale
         /\ ListContains(last.name)
         /\ \A i \in 1..Len(Declared(last)) : Resolvable(Declared(last)[i][1])

\* an in-memory add returned after a persistent remove had changed the
\* directories behind the caches
C15_Witness ==
    /\ last.op = "add" /\ last.outcome = "ok" /\ ~last.persistent
    /\ removed # {}
    /\ Len(Declared(last)) = 2
    /\ ~caches_stale

\* C16: after any sequence of persistent adds (successful or failed on
\* conflict) the module search directory is an entry of sys.path, and the
\* presence check keeps it from being appended again: sys.path never holds
\* more than one entry for that directory.
C16_OneSysPathEntry ==
    /\ (last.op = "add" /\ last.persistent) => sys_path >= 1
    /\ sys_path <= 1

\* C17: a successful persistent add(name, version, modules) followed by a
\* successful remove(name) restores the directory tree under the module
\* search root: no file and no directory the add created remains, dotted
\* module names included.  Stated for the first two calls of a run: the
\* remove can only have found the distribution the first call added, and
\* before that call the tree held at most the genuinely installed package.
C17_AddRemoveRestores ==
    (calls = 2 /\ last.op = "remove" /\ last.persistent /\ last.outcome = "ok")
      => /\ dirs \ {site_packages} \subseteq {RealDir, <<REAL_NAME>>}
         /\ DOMAIN files \subseteq RealFiles

\* C18: after a successful persistent add(name, version) and a successful
\* remove(name), a second persistent add with the same name and version
\* succeeds: a successful remove takes the distribution directory away, and
\* the conflict error is raised exactly when a distribution directory for that
\* name and version is present, never because of an earlier, removed
\* installation.
C18_AddAgainAfterRemove ==
    [][IsCall =>
        /\ (last'.op = "remove" /\ last'.persistent /\ last'.outcome = "ok")
             => last'.target \notin dirs'
        /\ (last'.op = "add" /\ last'.persistent)
             => /\ last'.outcome = "FileExistsError" <=> last'.target \in dirs
                /\ (/\ last'.target \in removed
                    /\ last'.target \notin dirs
                    /\ \A i \in 1..Len(Declared(last')) : Declared(last')[i][2] # INIT_FN)
                     => last'.outcome = "ok" ]_vars

\* a persistent add succeeded for a name and version that had been added and
\* removed before
C18_Witness ==
    /\ last.op = "add" /\ last.persistent /\ last.outcome = "ok"
    /\ last.target \in removed
    /\ calls = 3

====
